---- MODULE Spec2Model ----
(***************************************************************************)
(* OpenTag3D filament tag support (klippy/extras/opentag3d.py).            *)
(*                                                                         *)
(* Representation of Python values:                                        *)
(*   bytes  -> sequence of integers 0..255                                 *)
(*   str    -> sequence of Unicode code points (integers)                  *)
(*   float  -> integer number of thousandths (250.0 is 250000)             *)
(*   int    -> integer                                                     *)
(*   dict   -> function whose domain is the set of keys present            *)
(*   None   -> the value None below                                        *)
(***************************************************************************)
EXTENDS Integers, Sequences, FiniteSets, TLC

VARIABLES
    tag_data,      \* OpenTag3D.tag_data
    callback,      \* OpenTag3DReader.callback is set (TRUE) or None (FALSE)
    notified,      \* number of times _tag_callback has run to its end
    calls,         \* number of SET_OPENTAG3D_DATA commands handled
    last,          \* record of the most recent command (history)
    raw_data,      \* decode harness: the byte buffer handed to _parse_core_data
    padding,       \* decode harness: 16 bytes that precede raw_data in a full dump
    parsed,        \* decode harness: result for raw_data, or Pending
    parsed_dump    \* decode harness: result for padding \o raw_data, or Pending

vars == <<tag_data, callback, notified, calls, last,
          raw_data, padding, parsed, parsed_dump>>

None == [none |-> TRUE]
Pending == [pending |-> TRUE]

(***************************************************************************)
(* Module constants, opentag3d.py lines 9-41.                              *)
(***************************************************************************)
CORE_START_ADDR == 16
CORE_END_ADDR == 159
CORE_LENGTH == CORE_END_ADDR - CORE_START_ADDR + 1

TAG_FORMAT_ADDR == 16
TAG_VERSION_ADDR == 18
MANUFACTURER_ADDR == 20
BASE_MATERIAL_ADDR == 36
MATERIAL_MODIFIERS_ADDR == 41
COLOR_NAME_ADDR == 46
COLOR_1_ADDR == 78
COLOR_2_ADDR == 82
COLOR_3_ADDR == 86
TARGET_DIAMETER_ADDR == 90
TARGET_WEIGHT_ADDR == 92
PRINT_TEMPERATURE_ADDR == 94
BED_TEMPERATURE_ADDR == 95
DENSITY_ADDR == 96
ONLINE_URL_ADDR == 109

TAG_FORMAT_LEN == 2
TAG_VERSION_LEN == 2
MANUFACTURER_LEN == 16
BASE_MATERIAL_LEN == 5
MATERIAL_MODIFIERS_LEN == 5
COLOR_NAME_LEN == 32
COLOR_LEN == 4
TARGET_DIAMETER_LEN == 2
TARGET_WEIGHT_LEN == 2
PRINT_TEMPERATURE_LEN == 1
BED_TEMPERATURE_LEN == 1
DENSITY_LEN == 2
ONLINE_URL_LEN == 32

(***************************************************************************)
(* Text helpers: the Python built-ins the module relies on.                *)
(***************************************************************************)
\* str.isspace() for one code point (the characters str.strip() removes).
IsSpace(c) ==
    \/ c \in 9..13
    \/ c \in 28..32
    \/ c \in {133, 160, 5760, 8232, 8233, 8239, 8287, 12288}
    \/ c \in 8192..8202

\* str.strip()
RECURSIVE LStrip(_)
LStrip(s) ==
    IF s = <<>> THEN <<>>
    ELSE IF IsSpace(Head(s)) THEN LStrip(Tail(s)) ELSE s

RECURSIVE RStrip(_)
RStrip(s) ==
    IF s = <<>> THEN <<>>
    ELSE IF IsSpace(s[Len(s)]) THEN RStrip(SubSeq(s, 1, Len(s) - 1)) ELSE s

Strip(s) == RStrip(LStrip(s))

\* bytes.split(b'\x00', 1)[0]: the bytes before the first zero byte.
RECURSIVE BeforeNull(_)
BeforeNull(data) ==
    IF data = <<>> THEN <<>>
    ELSE IF Head(data) = 0 THEN <<>>
    ELSE <<Head(data)>> \o BeforeNull(Tail(data))

IsCont(b) == b \in 128..191

\* Number of bytes of the well-formed UTF-8 sequence that starts data, 0 if none.
Utf8Len(data) ==
    LET n  == Len(data)
        b1 == data[1]
        b2 == data[2]
        b3 == data[3]
        b4 == data[4]
    IN  IF b1 < 128 THEN 1
        ELSE IF b1 \in 194..223 THEN
            IF n >= 2 /\ IsCont(b2) THEN 2 ELSE 0
        ELSE IF b1 \in 224..239 THEN
            IF /\ n >= 3
               /\ IsCont(b2)
               /\ IsCont(b3)
               /\ (b1 = 224 => b2 >= 160)
               /\ (b1 = 237 => b2 <= 159)
            THEN 3 ELSE 0
        ELSE IF b1 \in 240..244 THEN
            IF /\ n >= 4
               /\ IsCont(b2)
               /\ IsCont(b3)
               /\ IsCont(b4)
               /\ (b1 = 240 => b2 >= 144)
               /\ (b1 = 244 => b2 <= 143)
            THEN 4 ELSE 0
        ELSE 0

\* Code point of the well-formed sequence of k bytes that starts data.
Utf8Point(data, k) ==
    IF k = 1 THEN data[1]
    ELSE IF k = 2 THEN (data[1] % 32) * 64 + (data[2] % 64)
    ELSE IF k = 3 THEN (data[1] % 16) * 4096 + (data[2] % 64) * 64 + (data[3] % 64)
    ELSE (data[1] % 8) * 262144 + (data[2] % 64) * 4096
         + (data[3] % 64) * 64 + (data[4] % 64)

\* bytes.decode('utf-8', errors='ignore'): ill-formed bytes are dropped.
RECURSIVE DecodeUtf8(_)
DecodeUtf8(data) ==
    IF data = <<>> THEN <<>>
    ELSE LET k == Utf8Len(data)
         IN  IF k = 0 THEN DecodeUtf8(Tail(data))
             ELSE <<Utf8Point(data, k)>>
                  \o DecodeUtf8(SubSeq(data, k + 1, Len(data)))

\* bytes.decode('ascii', errors='ignore'): bytes above 0x7F are dropped.
DecodeAscii(data) == SelectSeq(data, LAMBDA b : b < 128)

\* int.from_bytes(data, 'big')
RECURSIVE FromBytesBig(_)
FromBytesBig(data) ==
    IF data = <<>> THEN 0
    ELSE FromBytesBig(SubSeq(data, 1, Len(data) - 1)) * 256 + data[Len(data)]

\* One hexadecimal digit 0..15 as an upper-case character ("%X").
HexDigitUpper(d) == IF d < 10 THEN 48 + d ELSE 55 + d

\* "%02X" % byte
Hex02X(b) == <<HexDigitUpper(b \div 16), HexDigitUpper(b % 16)>>

\* The character class [0-9a-fA-F].
IsHexChar(c) == c \in 48..57 \/ c \in 65..70 \/ c \in 97..102

\* Value 0..15 of a hexadecimal character.
HexValue(c) ==
    IF c \in 48..57 THEN c - 48
    ELSE IF c \in 65..70 THEN c - 55
    ELSE c - 87

\* str.upper() on ASCII text.
Upper(s) == [i \in 1..Len(s) |-> IF s[i] \in 97..122 THEN s[i] - 32 ELSE s[i]]

\* bytes.fromhex() on a string of an even number of hexadecimal digits.
FromHex(h) ==
    [i \in 1..(Len(h) \div 2) |-> HexValue(h[2 * i - 1]) * 16 + HexValue(h[2 * i])]

(***************************************************************************)
(* String literals of the module.                                          *)
(***************************************************************************)
OT == <<79, 84>>           \* "OT"
HASH == <<35>>             \* "#"
FF == <<70, 70>>           \* "FF"
SPACE == <<32>>            \* " "

(***************************************************************************)
(* OpenTag3DReader: decoding helpers, lines 208-238.                       *)
(***************************************************************************)
\* _decode_string(data, encoding), line 208.
_decode_string(data, encoding) ==
    LET head == BeforeNull(data)
    IN  Strip(IF encoding = "ascii" THEN DecodeAscii(head) ELSE DecodeUtf8(head))

\* _format_rgba(data), line 211.
_format_rgba(data) ==
    IF Len(data) # COLOR_LEN THEN <<>>
    ELSE IF \A i \in 1..Len(data) : data[i] = 0 THEN <<>>
    ELSE HASH \o Hex02X(data[1]) \o Hex02X(data[2])
              \o Hex02X(data[3]) \o Hex02X(data[4])

\* The text _parse_rgba_param examines after strip, '#' removal and the
\* implicit "FF" alpha, lines 221-225.
RgbaHexValue(value) ==
    LET stripped == Strip(value)
        body == IF stripped # <<>> /\ <<Head(stripped)>> = HASH
                THEN Tail(stripped) ELSE stripped
    IN  IF Len(body) = 6 THEN body \o FF ELSE body

\* The condition under which _parse_rgba_param raises, line 226.
RgbaRaises(value) ==
    LET hex_value == RgbaHexValue(value)
    IN  \/ Len(hex_value) # 8
        \/ \E i \in 1..Len(hex_value) : ~IsHexChar(hex_value[i])

\* _parse_rgba_param(value) for a value that is not None and does not raise,
\* line 229.
_parse_rgba_param(value) == HASH \o Upper(RgbaHexValue(value))

\* _parse_raw_hex(raw_hex), line 231.
_parse_raw_hex(raw_hex) ==
    LET hex_data == SelectSeq(raw_hex, IsHexChar)
    IN  IF hex_data = <<>> \/ Len(hex_data) % 2 # 0 THEN None
        ELSE FromHex(hex_data)

(***************************************************************************)
(* OpenTag3DReader._parse_core_data, lines 240-320.                        *)
(***************************************************************************)
\* Layout selection that forgets to rebase a buffer that starts at 0x10.
SelectLayout_NoRebase(raw_data_) ==
    IF Len(raw_data_) >= CORE_LENGTH THEN [base_offset |-> 0] ELSE None

\* Layout selection, lines 243-248: [base_offset |-> n], or None where the
\* code returns None.
SelectLayout(raw_data_) ==
    IF Len(raw_data_) >= CORE_START_ADDR + CORE_LENGTH THEN [base_offset |-> 0]
    ELSE IF Len(raw_data_) >= CORE_LENGTH THEN [base_offset |-> 0 - CORE_START_ADDR]
    ELSE None

\* _slice(addr, length), lines 250-255.
_slice(raw_data_, offset, addr, length) ==
    LET start == addr + offset
        end == start + length
    IN  IF start < 0 \/ end > Len(raw_data_) THEN <<>>
        ELSE SubSeq(raw_data_, start + 1, end)

\* A gate that also turns away an empty tag format.
IsUnknownFormat_AnyNotOT(tag_format) == tag_format # OT

\* The gate on the tag format, line 259: the short record is returned.
IsUnknownFormat(tag_format) == tag_format # <<>> /\ tag_format # OT

\* filament_material as decode derives it, lines 292-294.
DecodedMaterial(base_material, material_modifiers) ==
    IF base_material # <<>> /\ material_modifiers # <<>>
    THEN base_material \o SPACE \o material_modifiers
    ELSE base_material

\* A decode that leaves the colour fallback to the later derivation.
DecodedColor_NameOnly(color_name, color_1_rgba) == color_name

\* filament_color as decode derives it, lines 296-298.
DecodedColor(color_name, color_1_rgba) ==
    IF color_name = <<>> THEN color_1_rgba ELSE color_name

\* The full record, lines 262-320.
FullRecord(raw_data_, offset, tag_format) ==
    LET S(addr, length) == _slice(raw_data_, offset, addr, length)
        tag_version_raw == FromBytesBig(S(TAG_VERSION_ADDR, TAG_VERSION_LEN))
        manufacturer == _decode_string(S(MANUFACTURER_ADDR, MANUFACTURER_LEN), "utf-8")
        base_material == _decode_string(S(BASE_MATERIAL_ADDR, BASE_MATERIAL_LEN), "utf-8")
        material_modifiers ==
            _decode_string(S(MATERIAL_MODIFIERS_ADDR, MATERIAL_MODIFIERS_LEN), "utf-8")
        color_name == _decode_string(S(COLOR_NAME_ADDR, COLOR_NAME_LEN), "utf-8")
        color_1_rgba == _format_rgba(S(COLOR_1_ADDR, COLOR_LEN))
        color_2_rgba == _format_rgba(S(COLOR_2_ADDR, COLOR_LEN))
        color_3_rgba == _format_rgba(S(COLOR_3_ADDR, COLOR_LEN))
        target_diameter_um == FromBytesBig(S(TARGET_DIAMETER_ADDR, TARGET_DIAMETER_LEN))
        target_weight_g == FromBytesBig(S(TARGET_WEIGHT_ADDR, TARGET_WEIGHT_LEN))
        print_temp_raw == FromBytesBig(S(PRINT_TEMPERATURE_ADDR, PRINT_TEMPERATURE_LEN))
        bed_temp_raw == FromBytesBig(S(BED_TEMPERATURE_ADDR, BED_TEMPERATURE_LEN))
        density_raw == FromBytesBig(S(DENSITY_ADDR, DENSITY_LEN))
        online_url == _decode_string(S(ONLINE_URL_ADDR, ONLINE_URL_LEN), "ascii")
        \* floats in thousandths: x * 5.0 and x / 1000.0
        print_temperature == print_temp_raw * 5000
        bed_temperature == bed_temp_raw * 5000
        density_g_cm3 == IF density_raw # 0 THEN density_raw ELSE 0
    IN  [tag_format |-> tag_format,
         tag_version |-> tag_version_raw,
         filament_manufacturer |-> manufacturer,
         base_material |-> base_material,
         material_modifiers |-> material_modifiers,
         color_name |-> color_name,
         color_1_rgba |-> color_1_rgba,
         color_2_rgba |-> color_2_rgba,
         color_3_rgba |-> color_3_rgba,
         target_diameter_um |-> target_diameter_um,
         target_weight_g |-> target_weight_g,
         print_temperature |-> print_temperature,
         bed_temperature |-> bed_temperature,
         density_g_cm3 |-> density_g_cm3,
         online_data_url |-> online_url,
         filament_material |-> DecodedMaterial(base_material, material_modifiers),
         filament_color |-> DecodedColor(color_name, color_1_rgba),
         recommended_nozzle_temp |-> print_temperature,
         recommended_bed_temp |-> bed_temperature]

\* _parse_core_data(raw_data), line 240.
_parse_core_data(raw_data_) ==
    IF raw_data_ = None THEN None
    ELSE LET layout == SelectLayout(raw_data_)
         IN  IF layout = None THEN None
             ELSE LET offset == layout.base_offset
                      tag_format ==
                          _decode_string(
                              _slice(raw_data_, offset, TAG_FORMAT_ADDR, TAG_FORMAT_LEN),
                              "ascii")
                  IN  IF IsUnknownFormat(tag_format)
                      THEN [tag_format |-> tag_format, tag_version |-> 0]
                      ELSE FullRecord(raw_data_, offset, tag_format)

(***************************************************************************)
(* Tag images used as inputs: the layout of lines 13-41 filled with the    *)
(* field values of f.                                                      *)
(***************************************************************************)
\* data zero-padded (or cut) to exactly n bytes.
Field(data, n) == [i \in 1..n |-> IF i <= Len(data) THEN data[i] ELSE 0]

\* v as n big-endian bytes.
RECURSIVE ToBytesBig(_, _)
ToBytesBig(v, n) ==
    IF n = 0 THEN <<>> ELSE ToBytesBig(v \div 256, n - 1) \o <<v % 256>>

\* n bytes of value b.
Fill(b, n) == [i \in 1..n |-> b]

\* The bytes of addresses 0x10..0x9F.
Core(f) ==
    Field(f.fmt, TAG_FORMAT_LEN)
    \o ToBytesBig(f.ver, TAG_VERSION_LEN)
    \o Field(f.manu, MANUFACTURER_LEN)
    \o Field(f.base, BASE_MATERIAL_LEN)
    \o Field(f.mods, MATERIAL_MODIFIERS_LEN)
    \o Field(f.cname, COLOR_NAME_LEN)
    \o Field(f.c1, COLOR_LEN)
    \o Field(f.c2, COLOR_LEN)
    \o Field(f.c3, COLOR_LEN)
    \o ToBytesBig(f.diam, TARGET_DIAMETER_LEN)
    \o ToBytesBig(f.wt, TARGET_WEIGHT_LEN)
    \o ToBytesBig(f.pt, PRINT_TEMPERATURE_LEN)
    \o ToBytesBig(f.bt, BED_TEMPERATURE_LEN)
    \o ToBytesBig(f.dens, DENSITY_LEN)
    \o Fill(f.gap, ONLINE_URL_ADDR - (DENSITY_ADDR + DENSITY_LEN))
    \o Field(f.url, ONLINE_URL_LEN)
    \o Fill(f.gap, CORE_END_ADDR + 1 - (ONLINE_URL_ADDR + ONLINE_URL_LEN))

\* Byte strings written on tags.
B_OT == <<79, 84>>                       \* "OT"
B_XY == <<88, 89>>                       \* "XY"
B_O == <<79>>                            \* "O" then a zero byte
B_OT_HIGH == <<79, 200>>                 \* "O" then a byte ASCII drops
B_PLA == <<80, 76, 65>>                  \* "PLA"
B_PLA_SP == <<80, 76, 65, 32, 32>>       \* "PLA  "
B_PETG == <<80, 69, 84, 71>>             \* "PETG"
B_MATTE == <<77, 97, 116, 116, 101>>     \* "Matte"
B_CF == <<67, 70>>                       \* "CF"
B_RED == <<82, 101, 100>>                \* "Red"
B_ACME == <<65, 99, 109, 101>>           \* "Acme"
B_ZE == <<90, 195, 169, 255, 33>>        \* "Z", U+00E9, an ill-formed byte, "!"
B_URL == <<97, 46, 105, 111>>            \* "a.io"
B_ORANGE == <<255, 136, 0, 255>>         \* RGBA FF 88 00 FF
B_GREEN == <<0, 255, 0, 128>>            \* RGBA 00 FF 00 80

(***************************************************************************)
(* OpenTag3D: the tag state and its derivation, lines 58-150.              *)
(***************************************************************************)
\* self.tag_data after __init__, lines 58-80.
InitialTagData ==
    [tag_format |-> <<>>,
     tag_version |-> 0,
     filament_manufacturer |-> <<>>,
     base_material |-> <<>>,
     material_modifiers |-> <<>>,
     color_name |-> <<>>,
     color_1_rgba |-> <<>>,
     color_2_rgba |-> <<>>,
     color_3_rgba |-> <<>>,
     target_diameter_um |-> 0,
     target_weight_g |-> 0,
     print_temperature |-> 0,
     bed_temperature |-> 0,
     density_g_cm3 |-> 0,
     online_data_url |-> <<>>,
     filament_material |-> <<>>,
     filament_color |-> <<>>,
     recommended_nozzle_temp |-> 0,
     recommended_bed_temp |-> 0,
     batch_id |-> <<>>,
     remaining_filament |-> 0]

\* dict.update(): the keys of other replace or extend those of d.
DictUpdate(d, other) ==
    [k \in DOMAIN d \cup DOMAIN other |-> IF k \in DOMAIN other THEN other[k] ELSE d[k]]

\* A derivation that recomputes filament_material whenever base_material is set.
DeriveMaterial_Always(td) ==
    IF td.base_material # <<>>
    THEN IF td.material_modifiers # <<>>
         THEN td.base_material \o SPACE \o td.material_modifiers
         ELSE td.base_material
    ELSE td.filament_material

\* A derivation that drops the modifiers.
DeriveMaterial_NoModifiers(td) ==
    IF td.base_material # <<>> /\ td.filament_material = <<>>
    THEN td.base_material
    ELSE td.filament_material

\* filament_material after lines 124-131.
DeriveMaterial(td) ==
    IF td.base_material # <<>> /\ td.filament_material = <<>>
    THEN IF td.material_modifiers # <<>>
         THEN td.base_material \o SPACE \o td.material_modifiers
         ELSE td.base_material
    ELSE td.filament_material

\* filament_color after lines 133-140.
DeriveColor(td) ==
    IF td.filament_color = <<>>
    THEN IF td.color_name # <<>> THEN td.color_name
         ELSE IF td.color_1_rgba # <<>> THEN td.color_1_rgba
         ELSE td.filament_color
    ELSE td.filament_color

\* recommended_nozzle_temp after lines 142-145.
DeriveNozzleTemp(td) ==
    IF td.recommended_nozzle_temp = 0 /\ td.print_temperature # 0
    THEN td.print_temperature
    ELSE td.recommended_nozzle_temp

\* recommended_bed_temp after lines 147-150.
DeriveBedTemp(td) ==
    IF td.recommended_bed_temp = 0 /\ td.bed_temperature # 0
    THEN td.bed_temperature
    ELSE td.recommended_bed_temp

\* _derive_tag_fields(), line 123: each step reads base fields and its own
\* target only, so the four assignments do not interact.
_derive_tag_fields(td) ==
    [td EXCEPT !.filament_material = DeriveMaterial(td),
               !.filament_color = DeriveColor(td),
               !.recommended_nozzle_temp = DeriveNozzleTemp(td),
               !.recommended_bed_temp = DeriveBedTemp(td)]

\* A callback that replaces the tag state instead of updating it.
_tag_callback_Replace(td, update) ==
    _derive_tag_fields(DictUpdate(InitialTagData, update))

\* self.tag_data after _tag_callback(update), lines 112-113.
_tag_callback(td, update) == _derive_tag_fields(DictUpdate(td, update))

(***************************************************************************)
(* OpenTag3DReader.cmd_SET_OPENTAG3D_DATA, lines 323-372.  gcmd is the     *)
(* dict of the command's parameters; gcmd.get(name, None) is None exactly  *)
(* when name is not a key.                                                 *)
(***************************************************************************)
\* manual_fields, lines 337-356: parameter name -> tag_data key.
ManualFieldKey ==
    [TAG_FORMAT |-> "tag_format",
     TAG_VERSION |-> "tag_version",
     MANUFACTURER |-> "filament_manufacturer",
     BASE_MATERIAL |-> "base_material",
     MATERIAL_MODIFIERS |-> "material_modifiers",
     COLOR_NAME |-> "color_name",
     DIAMETER_UM |-> "target_diameter_um",
     WEIGHT_G |-> "target_weight_g",
     PRINT_TEMP |-> "print_temperature",
     BED_TEMP |-> "bed_temperature",
     DENSITY |-> "density_g_cm3",
     ONLINE_URL |-> "online_data_url",
     MATERIAL |-> "filament_material",
     COLOR |-> "filament_color",
     NOZZLE_TEMP |-> "recommended_nozzle_temp",
     RECOMMENDED_BED_TEMP |-> "recommended_bed_temp",
     BATCH_ID |-> "batch_id",
     REMAINING |-> "remaining_filament"]

\* manual_colors, lines 358-365: parameter name -> tag_data key.
ManualColorKey ==
    [COLOR_1 |-> "color_1_rgba",
     COLOR_2 |-> "color_2_rgba",
     COLOR_3 |-> "color_3_rgba"]

\* `if raw_hex:`, line 326: RAW is present and not the empty string.
HasRaw(gcmd) == "RAW" \in DOMAIN gcmd /\ gcmd["RAW"] # <<>>

\* A check that lets an empty tag format through.
RawError_PresentOnly(has_raw, parsed_) ==
    IF ~has_raw THEN ""
    ELSE IF parsed_ = None THEN "OpenTag3D: RAW data length is too short"
    ELSE IF parsed_.tag_format # <<>> /\ parsed_.tag_format # OT
         THEN "OpenTag3D: RAW data is not OpenTag3D format"
    ELSE ""

\* The command_error raised while RAW is handled, lines 329-334 ("" if none).
RawError(has_raw, parsed_) ==
    IF ~has_raw THEN ""
    ELSE IF parsed_ = None THEN "OpenTag3D: RAW data length is too short"
    ELSE IF parsed_.tag_format # OT THEN "OpenTag3D: RAW data is not OpenTag3D format"
    ELSE ""

\* The command_error raised by _parse_rgba_param, lines 362-364 ("" if none).
ColorError(gcmd) ==
    IF \E p \in DOMAIN ManualColorKey \cap DOMAIN gcmd : RgbaRaises(gcmd[p])
    THEN "OpenTag3D: COLOR value must be 6 or 8 hex characters"
    ELSE ""

\* The (key, val) pairs of lines 367-369 whose val is not None, as a dict.
ManualUpdate(gcmd) ==
    LET fields == DOMAIN ManualFieldKey \cap DOMAIN gcmd
        colors == DOMAIN ManualColorKey \cap DOMAIN gcmd
    IN  [k \in {ManualFieldKey[p] : p \in fields} \cup {ManualColorKey[p] : p \in colors} |->
            IF \E p \in fields : ManualFieldKey[p] = k
            THEN gcmd[CHOOSE p \in fields : ManualFieldKey[p] = k]
            ELSE _parse_rgba_param(gcmd[CHOOSE p \in colors : ManualColorKey[p] = k])]

\* An overlay in the wrong order: decoded values replace manual ones.
MergeUpdate_DecodedWins(decoded, manual) == DictUpdate(manual, decoded)

\* update_data at line 371: the decoded record overlaid with the manual values.
MergeUpdate(decoded, manual) == DictUpdate(decoded, manual)

\* A guard that calls back with an empty update_data too.
Delivers_IgnoresEmpty(cb, update_data) == cb

\* `if self.callback and update_data:`, line 371.
Delivers(cb, update_data) == cb /\ DOMAIN update_data # {}

(***************************************************************************)
(* Inputs.                                                                 *)
(***************************************************************************)
MaxCalls == 2       \* commands handled in one run
MaxParams == 2      \* parameters carried by one command

\* bytes.hex(): the lower-case text of a dump.
HexDigitLower(d) == IF d < 10 THEN 48 + d ELSE 87 + d
ToHex(data) ==
    [i \in 1..(2 * Len(data)) |->
        IF i % 2 = 1 THEN HexDigitLower(data[(i + 1) \div 2] \div 16)
        ELSE HexDigitLower(data[i \div 2] % 16)]

\* The same dump written "AA:BB:CC": upper case, a colon after every byte.
ToHexColons(data) ==
    [i \in 1..(3 * Len(data)) |->
        IF i % 3 = 1 THEN HexDigitUpper(data[(i + 2) \div 3] \div 16)
        ELSE IF i % 3 = 2 THEN HexDigitUpper(data[(i + 1) \div 3] % 16)
        ELSE 58]

BlankTag ==
    [fmt |-> B_OT, ver |-> 1000, manu |-> <<>>, base |-> <<>>, mods |-> <<>>,
     cname |-> <<>>, c1 |-> <<>>, c2 |-> <<>>, c3 |-> <<>>, diam |-> 1750,
     wt |-> 1000, pt |-> 0, bt |-> 0, dens |-> 0, url |-> <<>>, gap |-> 165]

\* A fully written tag: "PLA" "Matte", colour name "Red", 210 / 60 degrees.
TagPlaMatte ==
    [BlankTag EXCEPT !.manu = B_ZE, !.base = B_PLA_SP, !.mods = B_MATTE,
                     !.cname = B_RED, !.c1 = B_ORANGE, !.c3 = B_GREEN,
                     !.pt = 42, !.bt = 12, !.dens = 1240, !.url = B_URL]
\* "PETG" "CF", a colour without a name, no print temperature.
TagPetgCf ==
    [BlankTag EXCEPT !.manu = B_ACME, !.base = B_PETG, !.mods = B_CF,
                     !.c1 = B_GREEN, !.bt = 12, !.dens = 1240, !.url = B_URL]
\* Format bytes all zero, modifiers without a base material.
TagNoFormat == [BlankTag EXCEPT !.fmt = <<>>, !.mods = B_CF, !.pt = 50]
\* Another format.
TagXY == [TagPlaMatte EXCEPT !.fmt = B_XY]

T_PLA == <<80, 76, 65>>                                  \* "PLA"
T_MATTE == <<77, 97, 116, 116, 101>>                     \* "Matte"
T_CUSTOM == <<67, 117, 115, 116, 111, 109, 66, 108, 101, 110, 100>>  \* "CustomBlend"
T_B7 == <<66, 55>>                                       \* "B7"
T_AA00FF11 == <<32, 35, 97, 97, 48, 48, 102, 102, 49, 49, 32>>  \* " #aa00ff11 "
T_12345 == <<49, 50, 51, 52, 53>>                        \* "12345"

\* Values offered for each parameter of SET_OPENTAG3D_DATA.  RAW: a full dump
\* of a valid tag written with colons, a tag without format bytes, a tag of
\* another format, ten zero bytes, and a dump that lost its first hex digit.
ParamValues ==
    [RAW |-> {ToHexColons(Fill(255, CORE_START_ADDR) \o Core(TagPetgCf)),
              ToHex(Core(TagNoFormat)),
              ToHex(Core(TagXY)),
              ToHex(Fill(0, 10)),
              Tail(ToHex(Core(TagPetgCf)))},
     BASE_MATERIAL |-> {T_PLA},
     MATERIAL_MODIFIERS |-> {T_MATTE},
     MATERIAL |-> {T_CUSTOM, <<>>},
     PRINT_TEMP |-> {200000},
     COLOR_1 |-> {T_AA00FF11, T_12345},
     BATCH_ID |-> {T_B7}]

ParamNames ==
    <<"RAW", "BASE_MATERIAL", "MATERIAL_MODIFIERS", "MATERIAL", "PRINT_TEMP",
      "COLOR_1", "BATCH_ID">>

\* The commands that use the parameters ParamNames[i..] and carry at most n.
RECURSIVE CommandsFrom(_, _)
CommandsFrom(i, n) ==
    IF i > Len(ParamNames) \/ n = 0 THEN {<<>>}
    ELSE CommandsFrom(i + 1, n)
         \cup {DictUpdate(g, [p \in {ParamNames[i]} |-> v]) :
                 v \in ParamValues[ParamNames[i]], g \in CommandsFrom(i + 1, n - 1)}

Commands == CommandsFrom(1, MaxParams)

\* parsed, lines 327-328, tabulated once for the RAW texts offered.
ParsedRaw == [raw_hex \in ParamValues.RAW |-> _parse_core_data(_parse_raw_hex(raw_hex))]

\* update_data after line 335, before the manual values are laid over it.
DecodedUpdate(gcmd, parsed_) == IF HasRaw(gcmd) THEN parsed_ ELSE <<>>

\* The handler left by a raise:
\*   parsed       the local parsed (None when RAW is not handled)
\*   error        the command_error raised
\*   update_data  the local update_data when the handler is left
\*   delivered    whether self.callback(update_data) ran
\*   tag_data     self.tag_data of the registered OpenTag3D afterwards
Raised(td, parsed_, error, update_data) ==
    [parsed |-> parsed_,
     error |-> error,
     update_data |-> update_data,
     delivered |-> FALSE,
     tag_data |-> td]

\* The handler left by its return, lines 371-372.
Returned(cb, td, parsed_, update_data) ==
    [parsed |-> parsed_,
     error |-> "",
     update_data |-> update_data,
     delivered |-> Delivers(cb, update_data),
     tag_data |-> IF Delivers(cb, update_data) THEN _tag_callback(td, update_data)
                  ELSE td]

\* A handler that hands the manual fields to the callback before the
\* COLOR_n values are validated.
OnColorError_EagerFields(gcmd, cb, td, parsed_) ==
    [Returned(cb, td, parsed_,
              MergeUpdate(DecodedUpdate(gcmd, parsed_),
                          ManualUpdate([p \in DOMAIN gcmd \ DOMAIN ManualColorKey |->
                                           gcmd[p]])))
        EXCEPT !.error = ColorError(gcmd)]

\* The raise of _parse_rgba_param, lines 362-364: nothing was applied yet.
OnColorError(gcmd, cb, td, parsed_) ==
    Raised(td, parsed_, ColorError(gcmd), DecodedUpdate(gcmd, parsed_))

\* Lines 337-372, reached when RAW raised nothing.
ApplyManual(gcmd, cb, td, parsed_) ==
    IF ColorError(gcmd) # "" THEN OnColorError(gcmd, cb, td, parsed_)
    ELSE Returned(cb, td, parsed_,
                  MergeUpdate(DecodedUpdate(gcmd, parsed_), ManualUpdate(gcmd)))

\* Lines 329-335: the raises that follow decoding, else the rest of the handler.
CheckParsed(gcmd, cb, td, parsed_) ==
    IF RawError(HasRaw(gcmd), parsed_) # ""
    THEN Raised(td, parsed_, RawError(HasRaw(gcmd), parsed_), <<>>)
    ELSE ApplyManual(gcmd, cb, td, parsed_)

\* The handler from its first line to its return or raise.
cmd_SET_OPENTAG3D_DATA(gcmd, cb, td) ==
    CheckParsed(gcmd, cb, td, IF HasRaw(gcmd) THEN ParsedRaw[gcmd["RAW"]] ELSE None)

(***************************************************************************)
(* The reader and its tag state.                                           *)
(***************************************************************************)
NoCommand == [cmd |-> "none"]

\* Values offered to OPENTAG3D_UPDATE_REMAINING.
RemainingValues == {0, 125000}

Init ==
    /\ tag_data = InitialTagData
    /\ callback = FALSE
    /\ notified = 0
    /\ calls = 0
    /\ last = NoCommand
    /\ raw_data = <<>>
    /\ padding = <<>>
    /\ parsed = Pending
    /\ parsed_dump = Pending

\* OpenTag3D._handle_ready with the reader found, lines 104-106: self.reader is
\* set and register_callback stores _tag_callback in the reader.
HandleReady ==
    /\ ~callback
    /\ callback' = TRUE
    /\ UNCHANGED <<tag_data, notified, calls, last,
                   raw_data, padding, parsed, parsed_dump>>

\* The state after SET_OPENTAG3D_DATA(gcmd) left the handler with outcome out.
Handled(gcmd, out) ==
    /\ tag_data' = out.tag_data
    /\ notified' = IF out.delivered THEN notified + 1 ELSE notified
    /\ last' = [cmd |-> "SET_OPENTAG3D_DATA",
                gcmd |-> gcmd,
                callback |-> callback,
                parsed |-> out.parsed,
                error |-> out.error,
                update_data |-> out.update_data,
                delivered |-> out.delivered,
                prior |-> tag_data,
                prior_notified |-> notified]

\* SET_OPENTAG3D_DATA handled from its first line to its return or raise.
SetData ==
    /\ calls < MaxCalls
    /\ \E gcmd \in Commands :
          Handled(gcmd, cmd_SET_OPENTAG3D_DATA(gcmd, callback, tag_data))
    /\ calls' = calls + 1
    /\ UNCHANGED <<callback, raw_data, padding, parsed, parsed_dump>>

\* OPENTAG3D_UPDATE_REMAINING, lines 178-185: the request is passed to the
\* reader when there is one; tag_data is not written.
UpdateRemaining ==
    /\ calls < MaxCalls
    /\ \E remaining \in RemainingValues :
        last' = [cmd |-> "OPENTAG3D_UPDATE_REMAINING",
                 remaining |-> remaining,
                 requested |-> callback,
                 prior |-> tag_data,
                 prior_notified |-> notified]
    /\ calls' = calls + 1
    /\ UNCHANGED <<tag_data, callback, notified,
                   raw_data, padding, parsed, parsed_dump>>

Next == HandleReady \/ SetData \/ UpdateRemaining

Spec == Init /\ [][Next]_vars

(***************************************************************************)
(* _parse_core_data on its own: a buffer, and the same buffer behind 16    *)
(* bytes of padding, are each decoded once.                                *)
(***************************************************************************)
\* Tags written with every combination of these field values.
DecodeTags ==
    {[BlankTag EXCEPT !.fmt = fmt, !.manu = B_ZE, !.base = base, !.mods = mods,
                      !.cname = cname, !.c1 = c1, !.c3 = B_GREEN, !.pt = pt,
                      !.bt = 12, !.dens = dens, !.url = B_URL] :
        fmt \in {B_OT, B_XY, <<>>, B_O, B_OT_HIGH},
        base \in {<<>>, B_PLA, B_PLA_SP},
        mods \in {<<>>, B_MATTE},
        cname \in {<<>>, B_RED},
        c1 \in {<<>>, B_ORANGE},
        pt \in {0, 50},
        dens \in {0, 1240}}

\* Bytes found at addresses 0x00..0x0F of a full dump.
Paddings == {Fill(0, CORE_START_ADDR), B_XY \o Fill(255, CORE_START_ADDR - 2)}

\* Buffers handed to decode: exact cores, cores cut short, cores with bytes
\* after them, and full dumps.
DecodeInputs ==
    {Core(t) : t \in DecodeTags}
    \cup {SubSeq(Core(TagPlaMatte), 1, n) : n \in {0, 10, CORE_LENGTH - 1}}
    \cup {Core(t) \o Fill(9, n) : t \in {TagPlaMatte, TagXY, TagNoFormat},
                                  n \in {1, CORE_START_ADDR - 1, CORE_START_ADDR + 1}}
    \cup {pad \o Core(t) : pad \in Paddings, t \in {TagPlaMatte, TagXY, TagNoFormat}}

InitDecode ==
    /\ tag_data = InitialTagData
    /\ callback = FALSE
    /\ notified = 0
    /\ calls = 0
    /\ last = NoCommand
    /\ raw_data \in DecodeInputs
    /\ padding \in Paddings
    /\ parsed = Pending
    /\ parsed_dump = Pending

\* _parse_core_data(raw_data)
DecodeBuffer ==
    /\ parsed = Pending
    /\ parsed' = _parse_core_data(raw_data)
    /\ UNCHANGED <<tag_data, callback, notified, calls, last,
                   raw_data, padding, parsed_dump>>

\* _parse_core_data(padding + raw_data)
DecodeDump ==
    /\ parsed_dump = Pending
    /\ parsed_dump' = _parse_core_data(padding \o raw_data)
    /\ UNCHANGED <<tag_data, callback, notified, calls, last,
                   raw_data, padding, parsed>>

NextDecode == DecodeBuffer \/ DecodeDump

SpecDecode == InitDecode /\ [][NextDecode]_vars

(***************************************************************************)
(* Vocabulary of the properties.                                           *)
(***************************************************************************)
\* The 19 keys of a TagRecord.
DecodedKeys ==
    {"tag_format", "tag_version", "filament_manufacturer", "base_material",
     "material_modifiers", "color_name", "color_1_rgba", "color_2_rgba",
     "color_3_rgba", "target_diameter_um", "target_weight_g", "print_temperature",
     "bed_temperature", "density_g_cm3", "online_data_url", "filament_material",
     "filament_color", "recommended_nozzle_temp", "recommended_bed_temp"}

ConvenienceKeys ==
    {"filament_material", "filament_color", "recommended_nozzle_temp",
     "recommended_bed_temp"}

NumberKeys ==
    {"tag_version", "target_diameter_um", "target_weight_g", "print_temperature",
     "bed_temperature", "density_g_cm3", "recommended_nozzle_temp",
     "recommended_bed_temp", "remaining_filament"}

\* v, a value of key k, is the empty string or zero.
IsUnset(k, v) == IF k \in NumberKeys THEN v = 0 ELSE v = <<>>

TooShortError == "OpenTag3D: RAW data length is too short"
NotFormatError == "OpenTag3D: RAW data is not OpenTag3D format"
ColorFormatError == "OpenTag3D: COLOR value must be 6 or 8 hex characters"

\* The last command was a merge call.
IsMerge == last.cmd = "SET_OPENTAG3D_DATA"

\* The last command was a merge call that raised nothing.
Succeeded == IsMerge /\ last.error = ""

\* The last command was a successful merge whose update set reached the tag
\* state (the reader has its callback and the update set is not empty).
Merged == IsMerge /\ last.delivered

\* decode returned a full TagRecord in the last merge call.
DecodedFull == IsMerge /\ last.parsed # None /\ DOMAIN last.parsed = DecodedKeys

\* A COLOR_n text that is 6 or 8 hex characters after an optional '#'.
IsColorText(value) ==
    LET t == Strip(value)
        h == IF t # <<>> /\ t[1] = 35 THEN Tail(t) ELSE t
    IN  Len(h) \in {6, 8} /\ \A i \in 1..Len(h) : IsHexChar(h[i])

(***************************************************************************)
(* C1.  A merge call that fails - RAW too short, RAW not valid hex, RAW    *)
(* whose tag_format is not "OT", or a COLOR_1/2/3 value that is not 6 or 8 *)
(* hex characters - leaves every key of the tag state as it was and emits  *)
(* no notification, also when it carried valid manual overrides.  Each of  *)
(* the listed causes makes the call fail.                                  *)
(***************************************************************************)
C1_ListedCause ==
    \/ /\ HasRaw(last.gcmd)
       /\ LET digits == SelectSeq(last.gcmd["RAW"], IsHexChar)
          IN  \/ digits = <<>>
              \/ Len(digits) % 2 = 1
              \/ Len(digits) \div 2 < CORE_LENGTH
              \/ last.parsed = None
              \/ last.parsed.tag_format # OT
    \/ \E p \in {"COLOR_1", "COLOR_2", "COLOR_3"} \cap DOMAIN last.gcmd :
          ~IsColorText(last.gcmd[p])

C1_FailedMergeIsAtomic ==
    IsMerge =>
        /\ C1_ListedCause => last.error # ""
        /\ last.error # "" =>
              /\ tag_data = last.prior
              /\ notified = last.prior_notified
              /\ ~last.delivered

\* A bad COLOR_1 next to a valid BATCH_ID, on a reader with its callback and a
\* tag state that an earlier merge had filled.
C1_Witness ==
    /\ IsMerge
    /\ last.callback
    /\ last.error = ColorFormatError
    /\ DOMAIN last.gcmd = {"COLOR_1", "BATCH_ID"}
    /\ last.prior # InitialTagData
    /\ tag_data = last.prior

(***************************************************************************)
(* C2.  As claimed: in a merge with a decoded raw payload and manual       *)
(* overrides, for every manual key both the update set and the tag state   *)
(* after the merge hold the manual value.                                  *)
(***************************************************************************)
C2_ManualWinsEverywhere ==
    (Merged /\ HasRaw(last.gcmd)) =>
        \A k \in DOMAIN ManualUpdate(last.gcmd) :
            /\ last.update_data[k] = ManualUpdate(last.gcmd)[k]
            /\ tag_data[k] = ManualUpdate(last.gcmd)[k]

(***************************************************************************)
(* C2 as amended: for every manual key the update set holds the manual     *)
(* value, and so does the tag state after the merge unless the key is a    *)
(* convenience field whose manual value is empty or zero.                  *)
(***************************************************************************)
C2_ManualWins ==
    (Merged /\ HasRaw(last.gcmd)) =>
        \A k \in DOMAIN ManualUpdate(last.gcmd) :
            /\ last.update_data[k] = ManualUpdate(last.gcmd)[k]
            /\ (k \notin ConvenienceKeys \/ ~IsUnset(k, ManualUpdate(last.gcmd)[k]))
                  => tag_data[k] = ManualUpdate(last.gcmd)[k]

\* BASE_MATERIAL=PLA next to a payload that decodes another base material.
C2_Witness ==
    /\ Merged
    /\ HasRaw(last.gcmd)
    /\ "BASE_MATERIAL" \in DOMAIN last.gcmd
    /\ last.parsed.base_material # <<>>
    /\ last.parsed.base_material # last.gcmd["BASE_MATERIAL"]
    /\ tag_data.base_material = last.gcmd["BASE_MATERIAL"]

(***************************************************************************)
(* C3.  As claimed: the merge fails with NotOpenTag3DFormat only when the  *)
(* decoded tag_format is non-empty and not "OT", with PayloadTooShort only *)
(* when decode fails, and whenever decode returns a full TagRecord the     *)
(* payload is accepted and every field is copied into the update set.      *)
(***************************************************************************)
C3_Copied ==
    \A k \in DecodedKeys :
        /\ k \in DOMAIN last.update_data
        /\ k \notin DOMAIN ManualUpdate(last.gcmd) => last.update_data[k] = last.parsed[k]

C3_EmptyFormatAccepted ==
    IsMerge =>
        /\ last.error = NotFormatError =>
              /\ last.parsed # None
              /\ last.parsed.tag_format # <<>>
              /\ last.parsed.tag_format # OT
        /\ last.error = TooShortError => last.parsed = None
        /\ DecodedFull =>
              /\ last.error \notin {NotFormatError, TooShortError}
              /\ C3_Copied

(***************************************************************************)
(* C3 as amended: the merge fails with NotOpenTag3DFormat exactly when     *)
(* decode returns a record whose tag_format is not "OT" (an                *)
(* UnknownFormatRecord, or a full TagRecord with an empty tag_format),     *)
(* with PayloadTooShort exactly when decode fails; whenever decode returns *)
(* a full TagRecord whose tag_format is "OT" the payload is accepted and   *)
(* every field is copied into the update set.                              *)
(***************************************************************************)
C3_OnlyOTAccepted ==
    IsMerge =>
        /\ last.error = NotFormatError <=>
              (HasRaw(last.gcmd) /\ last.parsed # None /\ last.parsed.tag_format # OT)
        /\ last.error = TooShortError <=> (HasRaw(last.gcmd) /\ last.parsed = None)
        /\ (DecodedFull /\ last.parsed.tag_format = OT) =>
              /\ last.error \notin {NotFormatError, TooShortError}
              /\ C3_Copied

\* A full TagRecord with an empty tag_format, turned away.
C3_Witness ==
    /\ DecodedFull
    /\ last.parsed.tag_format = <<>>
    /\ last.parsed.material_modifiers # <<>>
    /\ last.error = NotFormatError
    /\ last.callback

(***************************************************************************)
(* C4.  As claimed: for every merge and every convenience field present in *)
(* the update set, whatever its value, the tag state after the merge holds *)
(* the supplied value.                                                     *)
(***************************************************************************)
C4_SuppliedAlwaysKept ==
    Merged =>
        \A k \in ConvenienceKeys \cap DOMAIN last.update_data :
            tag_data[k] = last.update_data[k]

(***************************************************************************)
(* C4 as amended: derivation only touches a convenience field that is      *)
(* empty or zero once the update set has been applied; for every merge and *)
(* every convenience field present in the update set with a non-empty,     *)
(* non-zero value, the tag state after the merge holds the supplied value. *)
(***************************************************************************)
C4_SuppliedKept ==
    Merged =>
        /\ \A k \in ConvenienceKeys \cap DOMAIN last.update_data :
              ~IsUnset(k, last.update_data[k]) => tag_data[k] = last.update_data[k]
        /\ \A k \in ConvenienceKeys :
              tag_data[k] # DictUpdate(last.prior, last.update_data)[k]
                 => IsUnset(k, DictUpdate(last.prior, last.update_data)[k])

\* MATERIAL=CustomBlend with BASE_MATERIAL=PLA.
C4_Witness ==
    /\ Merged
    /\ DOMAIN last.gcmd = {"MATERIAL", "BASE_MATERIAL"}
    /\ last.gcmd["MATERIAL"] = T_CUSTOM
    /\ last.gcmd["BASE_MATERIAL"] = T_PLA
    /\ tag_data.base_material = T_PLA
    /\ tag_data.filament_material = T_CUSTOM

(***************************************************************************)
(* C5.  As claimed: a derived filament_material is base_material, a space  *)
(* and material_modifiers if both are non-empty, otherwise whichever of    *)
(* the two is non-empty - in decode, and in a merge where                  *)
(* filament_material was empty before and is not in the update set.        *)
(***************************************************************************)
C5_EitherOne(base, mods) ==
    IF base # <<>> /\ mods # <<>> THEN base \o <<32>> \o mods
    ELSE IF base # <<>> THEN base
    ELSE mods

C5_Derives ==
    /\ Merged
    /\ last.prior.filament_material = <<>>
    /\ "filament_material" \notin DOMAIN last.update_data

C5_ModifiersAloneDerive ==
    /\ DecodedFull =>
          last.parsed.filament_material =
              C5_EitherOne(last.parsed.base_material, last.parsed.material_modifiers)
    /\ C5_Derives =>
          tag_data.filament_material =
              C5_EitherOne(tag_data.base_material, tag_data.material_modifiers)

(***************************************************************************)
(* C5 as amended: a derived filament_material is base_material, a space    *)
(* and material_modifiers if both are non-empty, otherwise base_material:  *)
(* base_material alone gives base_material, material_modifiers alone give  *)
(* the empty string.                                                       *)
(***************************************************************************)
C5_BaseFirst(base, mods) ==
    IF base # <<>> /\ mods # <<>> THEN base \o <<32>> \o mods ELSE base

C5_DerivedMaterial ==
    /\ DecodedFull =>
          last.parsed.filament_material =
              C5_BaseFirst(last.parsed.base_material, last.parsed.material_modifiers)
    /\ C5_Derives =>
          tag_data.filament_material =
              C5_BaseFirst(tag_data.base_material, tag_data.material_modifiers)

\* Modifiers alone had left filament_material empty; BASE_MATERIAL=PLA then
\* derives "PLA Matte".
C5_Witness ==
    /\ C5_Derives
    /\ last.prior.base_material = <<>>
    /\ last.prior.material_modifiers = T_MATTE
    /\ DOMAIN last.gcmd = {"BASE_MATERIAL"}
    /\ tag_data.filament_material = T_PLA \o <<32>> \o T_MATTE

(***************************************************************************)
(* C6.  As claimed: the notification is emitted once for each successful   *)
(* merge that changed at least one field of the tag state, and for no      *)
(* other merge.                                                            *)
(***************************************************************************)
C6_NotifiedOnChange ==
    IsMerge =>
        notified - last.prior_notified =
            IF last.error = "" /\ tag_data # last.prior THEN 1 ELSE 0

(***************************************************************************)
(* C6 as amended: the notification is emitted once for each merge that     *)
(* does not fail and has a non-empty update set, on a reader with its      *)
(* callback registered, whether or not a field of the tag state changed;   *)
(* it is emitted for no other merge and for no other command.              *)
(***************************************************************************)
C6_NotifiedOnDelivery ==
    /\ IsMerge =>
          notified - last.prior_notified =
              IF last.error = "" /\ last.callback /\ DOMAIN last.update_data # {}
              THEN 1 ELSE 0
    /\ last.cmd = "OPENTAG3D_UPDATE_REMAINING" => notified = last.prior_notified

\* The second of two notifications, for a merge that changed nothing.
C6_Witness ==
    /\ Merged
    /\ tag_data = last.prior
    /\ last.prior # InitialTagData
    /\ notified = 2

(***************************************************************************)
(* C7.  For a buffer b of exactly CORE_LENGTH bytes and 16 bytes of        *)
(* padding p, decode(b) and decode(p + b) are the same result.             *)
(***************************************************************************)
C7_LayoutEquivalence ==
    (Len(raw_data) = CORE_LENGTH /\ parsed # Pending /\ parsed_dump # Pending)
        => parsed = parsed_dump

\* A valid tag decoded both ways, behind padding that is not zero.
C7_Witness ==
    /\ Len(raw_data) = CORE_LENGTH
    /\ Len(padding) = CORE_START_ADDR
    /\ padding[1] # 0
    /\ parsed # Pending
    /\ parsed_dump # Pending
    /\ parsed # None
    /\ DOMAIN parsed = DecodedKeys
    /\ parsed.tag_format = OT
    /\ parsed.base_material # <<>>

(***************************************************************************)
(* C8.  decode fails exactly when the buffer is shorter than CORE_LENGTH;  *)
(* otherwise it returns {tag_format, tag_version = 0.0} and nothing else   *)
(* exactly when the two tag_format bytes decode to a non-empty string      *)
(* other than "OT"; otherwise it returns a record of all 19 fields.        *)
(***************************************************************************)
\* The two tag_format bytes of raw_data, by the layout its length selects.
C8_FormatText ==
    LET first == IF Len(raw_data) >= CORE_START_ADDR + CORE_LENGTH
                 THEN TAG_FORMAT_ADDR ELSE TAG_FORMAT_ADDR - CORE_START_ADDR
    IN  _decode_string(SubSeq(raw_data, first + 1, first + TAG_FORMAT_LEN), "ascii")

C8_DecodeOutcomes ==
    parsed # Pending =>
        /\ parsed = None <=> Len(raw_data) < CORE_LENGTH
        /\ parsed # None =>
              IF C8_FormatText # <<>> /\ C8_FormatText # OT
              THEN parsed = [tag_format |-> C8_FormatText, tag_version |-> 0]
              ELSE /\ DOMAIN parsed = DecodedKeys
                   /\ parsed.tag_format = C8_FormatText

\* All-zero tag_format bytes: a full record with an empty tag_format.
C8_Witness ==
    /\ parsed # Pending
    /\ parsed # None
    /\ Len(raw_data) = CORE_LENGTH
    /\ raw_data[1] = 0
    /\ DOMAIN parsed = DecodedKeys
    /\ parsed.tag_format = <<>>

(***************************************************************************)
(* C9.  After a successful merge, a key absent from the update set differs *)
(* from its prior value only if it is a convenience field whose prior      *)
(* value was empty or zero: once filament_material is non-empty, a merge   *)
(* that changes only base_material or material_modifiers leaves it alone,  *)
(* and batch_id and remaining_filament change only when supplied.          *)
(***************************************************************************)
C9_PartialUpdate ==
    /\ Succeeded =>
          \A k \in DOMAIN tag_data \ DOMAIN last.update_data :
              tag_data[k] # last.prior[k]
                 => (k \in ConvenienceKeys /\ IsUnset(k, last.prior[k]))
    /\ last.cmd = "OPENTAG3D_UPDATE_REMAINING" => tag_data = last.prior
    /\ DOMAIN tag_data = DOMAIN InitialTagData

\* filament_material "PLA" kept while material_modifiers becomes "Matte".
C9_Witness ==
    /\ Merged
    /\ DOMAIN last.update_data = {"material_modifiers"}
    /\ last.prior.base_material = T_PLA
    /\ last.prior.material_modifiers = <<>>
    /\ last.prior.filament_material = T_PLA
    /\ tag_data.material_modifiers = T_MATTE
    /\ tag_data.filament_material = T_PLA

(***************************************************************************)
(* C10.  A successful merge that supplies only a raw payload leaves the    *)
(* tag state equal to the decoded TagRecord on all 19 keys, whatever the   *)
(* earlier merges did, and batch_id and remaining_filament keep their      *)
(* prior values.                                                           *)
(***************************************************************************)
C10_RawOnlyReplaces ==
    (Merged /\ DOMAIN last.gcmd = {"RAW"}) =>
        /\ DOMAIN last.parsed = DecodedKeys
        /\ \A k \in DecodedKeys : tag_data[k] = last.parsed[k]
        /\ tag_data.batch_id = last.prior.batch_id
        /\ tag_data.remaining_filament = last.prior.remaining_filament

\* A payload without a colour name, merged over an earlier MATERIAL override.
C10_Witness ==
    /\ Merged
    /\ DOMAIN last.gcmd = {"RAW"}
    /\ last.prior.filament_material = T_CUSTOM
    /\ last.prior.batch_id = T_B7
    /\ last.parsed.color_name = <<>>
    /\ tag_data.filament_color = last.parsed.color_1_rgba
    /\ tag_data.filament_color # <<>>
    /\ tag_data.filament_material # T_CUSTOM
    /\ tag_data.batch_id = T_B7

====
